---- MODULE Spec2Model ----
(***************************************************************************)
(* Trivia API backend (backend/flaskr/__init__.py): six HTTP handlers over *)
(* a store of Question and Category rows.  The store is the state; every   *)
(* handler is one action that reads the request, touches the store and     *)
(* leaves the response in resp.                                            *)
(***************************************************************************)
EXTENDS Integers, Sequences, FiniteSets, TLC

VARIABLES
    questions,   \* the Question table: id -> [question, answer, difficulty, category]
    categories,  \* the Category table: id -> type
    req,         \* the request served last
    resp,        \* the response it got
    deleted,     \* history: ids deleted since the last successful create
    seen,        \* quiz client: the ids it has been served so far
    quizCat      \* quiz client: the category id it plays

vars == <<questions, categories, req, resp, deleted, seen, quizCat>>

----------------------------------------------------------------------------
(* Program constant and the bounds of the model *)

QUESTIONS_PER_PAGE == 10

\* number of ids the store hands out to created questions
MaxNew == 2
\* ids of the stores a quiz session is played on: 1..MaxQuiz
MaxQuiz == 3
\* ids of the stores the pagination specification starts from: 1..MaxStored
MaxStored == 11
\* page numbers requested from the pagination specification: -MaxPage..MaxPage
MaxPage == 2

\* the ids given to created questions follow those of a loaded database
NewIds == (QUESTIONS_PER_PAGE + 1)..(QUESTIONS_PER_PAGE + MaxNew)

----------------------------------------------------------------------------
(* Values *)

Min(a, b) == IF a < b THEN a ELSE b
Max(a, b) == IF a > b THEN a ELSE b

\* str.lower() on the characters the model uses
LowerChar(c) ==
    CASE c = "T" -> "t"
      [] c = "I" -> "i"
      [] OTHER -> c

Lower(s) == [i \in 1..Len(s) |-> LowerChar(s[i])]

\* SQL LIKE: % matches any run of characters, _ any one character
RECURSIVE Like(_, _)
Like(pat, s) ==
    IF pat = <<>> THEN s = <<>>
    ELSE IF Head(pat) = "%"
         THEN \E k \in 0..Len(s) : Like(Tail(pat), SubSeq(s, k + 1, Len(s)))
    ELSE IF s = <<>> THEN FALSE
    ELSE /\ (Head(pat) = "_" \/ Head(pat) = Head(s))
         /\ Like(Tail(pat), Tail(s))

\* column.ilike(pattern): LIKE on the lower-cased operands
ILike(s, pat) == Like(Lower(pat), Lower(s))

\* Python's seq[start:end], negative indices counted from the end
PySlice(s, start, end) ==
    LET n  == Len(s)
        lo == IF start < 0 THEN Max(n + start, 0) ELSE Min(start, n)
        hi == IF end < 0 THEN Max(n + end, 0) ELSE Min(end, n)
    IN  IF lo < hi THEN SubSeq(s, lo + 1, hi) ELSE <<>>

\* the ids of S in ascending order (ORDER BY id)
RECURSIVE SortedIds(_)
SortedIds(S) ==
    IF S = {} THEN <<>>
    ELSE LET m == CHOOSE x \in S : \A y \in S : x <= y
         IN  <<m>> \o SortedIds(S \ {m})

\* a field of a JSON body: absent, null or a value
Absent == [st |-> "absent"]
Null == [st |-> "null"]
Val(v) == [st |-> "val", v |-> v]

\* dict.get(key, None) is None
IsNone(f) == f.st # "val"

----------------------------------------------------------------------------
(* The store *)

\* Question.format()
format(id) ==
    [id |-> id,
     question |-> questions[id].question,
     answer |-> questions[id].answer,
     category |-> questions[id].category,
     difficulty |-> questions[id].difficulty]

\* [question.format() for question in selection], selection given as ids in order
FormatAll(ids) == [i \in 1..Len(ids) |-> format(ids[i])]

\* query.order_by(Question.id): the selected rows, as ids in ascending order
OrderById(selected) == SortedIds(selected)

\* {str(category.id): category.type for category in ...}
CategoryMap == categories

----------------------------------------------------------------------------
(* Responses *)

\* @app.errorhandler(404)
not_found ==
    [status |-> 404, success |-> FALSE, error |-> 404, message |-> "resource not found"]

\* @app.errorhandler(422)
unprocessable ==
    [status |-> 422, success |-> FALSE, error |-> 422, message |-> "unprocessable"]

\* an HTTPException leaving a handler: the registered error handler's body,
\* or the framework's own page when none is registered for the code
HttpError(code) ==
    CASE code = 404 -> not_found
      [] code = 422 -> unprocessable
      [] OTHER -> [status |-> code, html |-> TRUE]

\* except Exception: ... abort(422)
OnException == HttpError(422)

----------------------------------------------------------------------------
(* Handlers.  fault = TRUE: a store call of the handler raises.  The GET      *)
(* handlers only read the store: each is the response it computes.          *)

\* page size off by one: the last row of every page is dropped
paginate_questions_short(page, selection) ==
    LET p     == IF page = <<>> THEN 1 ELSE page[1]
        start == (p - 1) * QUESTIONS_PER_PAGE
        end   == start + QUESTIONS_PER_PAGE - 1
    IN  PySlice(FormatAll(selection), start, end)

\* page: <<>> when the query string has no integer page, else <<N>>
paginate_questions(page, selection) ==
    LET p     == IF page = <<>> THEN 1 ELSE page[1]
        start == (p - 1) * QUESTIONS_PER_PAGE
        end   == start + QUESTIONS_PER_PAGE
    IN  PySlice(FormatAll(selection), start, end)

\* GET /categories
retrieve_categories(fault) ==
    IF fault THEN OnException
    ELSE IF Cardinality(DOMAIN categories) = 0 THEN HttpError(404)
    ELSE [status |-> 200, success |-> TRUE, categories |-> CategoryMap]

\* GET /questions?page=N  (page = <<>>: no usable page argument)
retrieve_questions(page, fault) ==
    IF fault THEN OnException
    ELSE LET selection == OrderById(DOMAIN questions)
             current_questions == paginate_questions(page, selection)
         IN  IF Len(current_questions) = 0 THEN HttpError(404)
             ELSE [status |-> 200, success |-> TRUE,
                   questions |-> current_questions,
                   totalQuestions |-> Cardinality(DOMAIN questions),
                   categories |-> CategoryMap]

\* Question.delete(): the row leaves the table
Remove(id) == [i \in DOMAIN questions \ {id} |-> questions[i]]

\* Question.insert(): the row enters the table under the id the store gives it
Insert(id, row) == [i \in DOMAIN questions \cup {id} |-> IF i = id THEN row ELSE questions[i]]

\* question.delete() forgotten: success is reported and the row stays
delete_question_keeps(question_id, fault) ==
    /\ req' = [op |-> "delete", id |-> question_id, fault |-> fault]
    /\ UNCHANGED categories
    /\ IF fault
       THEN resp' = OnException /\ UNCHANGED <<questions, deleted>>
       ELSE IF question_id \notin DOMAIN questions
       THEN resp' = HttpError(404) /\ UNCHANGED <<questions, deleted>>
       ELSE /\ questions' = questions
            /\ resp' = [status |-> 200, success |-> TRUE, deleted |-> question_id]
            /\ deleted' = deleted \cup {question_id}

\* `if question is None: abort(404)` forgotten: None.delete() raises
delete_question_unchecked(question_id, fault) ==
    /\ req' = [op |-> "delete", id |-> question_id, fault |-> fault]
    /\ UNCHANGED categories
    /\ IF fault \/ question_id \notin DOMAIN questions
       THEN resp' = OnException /\ UNCHANGED <<questions, deleted>>
       ELSE /\ questions' = Remove(question_id)
            /\ resp' = [status |-> 200, success |-> TRUE, deleted |-> question_id]
            /\ deleted' = deleted \cup {question_id}

\* DELETE /questions/<int:question_id>
delete_question(question_id, fault) ==
    /\ req' = [op |-> "delete", id |-> question_id, fault |-> fault]
    /\ UNCHANGED categories
    /\ IF fault
       THEN resp' = OnException /\ UNCHANGED <<questions, deleted>>
       ELSE IF question_id \notin DOMAIN questions
       THEN resp' = HttpError(404) /\ UNCHANGED <<questions, deleted>>
       ELSE /\ questions' = Remove(question_id)
            /\ resp' = [status |-> 200, success |-> TRUE, deleted |-> question_id]
            /\ deleted' = deleted \cup {question_id}

\* `if searchTerm:` None and the empty string are false
Truthy(f) == f.st = "val" /\ f.v # <<>>

\* Question.question.ilike('%{}%'.format(searchTerm.lower()))
Matches(id, searchTerm) ==
    ILike(questions[id].question, <<"%">> \o Lower(searchTerm) \o <<"%">>)

\* a missing field is answered with abort(400)
create_question_or_search_bad_request(body, new_id, fault) ==
    /\ req' = [op |-> "create_or_search", body |-> body, fault |-> fault]
    /\ UNCHANGED categories
    /\ IF body.kind = "malformed"
       THEN resp' = HttpError(400) /\ UNCHANGED <<questions, deleted>>
       ELSE IF body.kind # "object"
       THEN resp' = OnException /\ UNCHANGED <<questions, deleted>>
       ELSE LET new_question   == body.question
                new_answer     == body.answer
                new_difficulty == body.difficulty
                new_category   == body.category
                searchTerm     == body.searchTerm
            IN  IF Truthy(searchTerm)
                THEN /\ resp' = IF fault THEN OnException
                               ELSE LET selection == OrderById({id \in DOMAIN questions :
                                                                  Matches(id, searchTerm.v)})
                                    IN  [status |-> 200, success |-> TRUE,
                                         questions |-> FormatAll(selection),
                                         totalQuestions |-> Cardinality(DOMAIN questions),
                                         currentCategory |-> "null"]
                     /\ UNCHANGED <<questions, deleted>>
                ELSE IF IsNone(new_question) \/ IsNone(new_answer)
                        \/ IsNone(new_category) \/ IsNone(new_difficulty)
                THEN resp' = HttpError(400) /\ UNCHANGED <<questions, deleted>>
                ELSE IF fault
                THEN resp' = OnException /\ UNCHANGED <<questions, deleted>>
                ELSE /\ new_id \notin DOMAIN questions
                     /\ questions' = Insert(new_id,
                                            [question |-> new_question.v,
                                             answer |-> new_answer.v,
                                             difficulty |-> new_difficulty.v,
                                             category |-> new_category.v])
                     /\ resp' = [status |-> 200, success |-> TRUE]
                     /\ deleted' = {}

\* POST /questions  (new_id: the id the store gives an inserted row)
create_question_or_search(body, new_id, fault) ==
    /\ req' = [op |-> "create_or_search", body |-> body, fault |-> fault]
    /\ UNCHANGED categories
    /\ IF body.kind = "malformed"
       THEN resp' = HttpError(400) /\ UNCHANGED <<questions, deleted>>
       ELSE IF body.kind # "object"
       THEN resp' = OnException /\ UNCHANGED <<questions, deleted>>
       ELSE LET new_question   == body.question
                new_answer     == body.answer
                new_difficulty == body.difficulty
                new_category   == body.category
                searchTerm     == body.searchTerm
            IN  IF Truthy(searchTerm)
                THEN /\ resp' = IF fault THEN OnException
                               ELSE LET selection == OrderById({id \in DOMAIN questions :
                                                                  Matches(id, searchTerm.v)})
                                    IN  [status |-> 200, success |-> TRUE,
                                         questions |-> FormatAll(selection),
                                         totalQuestions |-> Cardinality(DOMAIN questions),
                                         currentCategory |-> "null"]
                     /\ UNCHANGED <<questions, deleted>>
                ELSE IF IsNone(new_question) \/ IsNone(new_answer)
                        \/ IsNone(new_category) \/ IsNone(new_difficulty)
                THEN resp' = HttpError(422) /\ UNCHANGED <<questions, deleted>>
                ELSE IF fault
                THEN resp' = OnException /\ UNCHANGED <<questions, deleted>>
                ELSE /\ new_id \notin DOMAIN questions
                     /\ questions' = Insert(new_id,
                                            [question |-> new_question.v,
                                             answer |-> new_answer.v,
                                             difficulty |-> new_difficulty.v,
                                             category |-> new_category.v])
                     /\ resp' = [status |-> 200, success |-> TRUE]
                     /\ deleted' = {}

\* totalQuestions counts the selection instead of the table
retrieve_questions_from_category_counts_selection(category_id, fault) ==
    IF fault THEN OnException
    ELSE IF category_id \notin DOMAIN categories THEN HttpError(404)
    ELSE LET selection == OrderById({id \in DOMAIN questions : questions[id].category = category_id})
         IN  IF Len(selection) = 0 THEN HttpError(404)
             ELSE [status |-> 200, success |-> TRUE,
                   questions |-> FormatAll(selection),
                   totalQuestions |-> Len(selection),
                   currentCategory |-> categories[category_id]]

\* GET /categories/<int:category_id>/questions
retrieve_questions_from_category(category_id, fault) ==
    IF fault THEN OnException
    ELSE IF category_id \notin DOMAIN categories THEN HttpError(404)
    ELSE LET selection == OrderById({id \in DOMAIN questions : questions[id].category = category_id})
         IN  IF Len(selection) = 0 THEN HttpError(404)
             ELSE [status |-> 200, success |-> TRUE,
                   questions |-> FormatAll(selection),
                   totalQuestions |-> Cardinality(DOMAIN questions),
                   currentCategory |-> categories[category_id]]

\* the filter on previous_questions forgotten
NotIn_unfiltered(id, previous_questions) == TRUE

\* only the question served last is excluded
NotIn_last_only(id, previous_questions) ==
    previous_questions = <<>> \/ previous_questions[Len(previous_questions)] # id

\* Question.id.not_in(previous_questions)
NotIn(id, previous_questions) ==
    \A k \in 1..Len(previous_questions) : previous_questions[k] # id

\* POST /quizzes  (random.choice: any row of the selection)
get_questions_for_quiz(body, fault) ==
    /\ req' = [op |-> "quiz", body |-> body, fault |-> fault]
    /\ UNCHANGED <<questions, categories, deleted>>
    /\ IF body.kind = "malformed"
       THEN resp' = HttpError(400)
       ELSE IF body.kind # "object"
       THEN resp' = OnException
       ELSE LET previous_questions == body.previous_questions
                quiz_category      == body.quiz_category
            IN  IF IsNone(quiz_category) \/ IsNone(previous_questions) \/ fault
                THEN resp' = OnException
                ELSE LET selection ==
                           IF quiz_category.v.id = 0
                           THEN {id \in DOMAIN questions : NotIn(id, previous_questions.v)}
                           ELSE {id \in DOMAIN questions :
                                    /\ questions[id].category = quiz_category.v.id
                                    /\ NotIn(id, previous_questions.v)}
                     IN  IF Cardinality(selection) = 0
                         THEN resp' = HttpError(404)
                         ELSE \E random_question \in selection :
                                 resp' = [status |-> 200, success |-> TRUE,
                                          question |-> format(random_question)]

----------------------------------------------------------------------------
(* Initial stores *)

Science == "Science"

NoRequest == [op |-> "none"]
NoResponse == [status |-> 0]

\* a row of a loaded database
Row(id) ==
    [question |-> IF id = 1 THEN <<"T", "i">> ELSE <<"a">>,
     answer |-> "x",
     difficulty |-> 1,
     category |-> 1]

\* Pagination: any set of rows with ids in 1..MaxStored
InitPage ==
    /\ \E S \in SUBSET (1..MaxStored) : questions = [id \in S |-> Row(id)]
    /\ categories = (1 :> Science)
    /\ req = NoRequest
    /\ resp = NoResponse
    /\ deleted = {}
    /\ seen = <<>>
    /\ quizCat = 0

PageArgs == {<<>>} \cup {<<n>> : n \in (-MaxPage)..MaxPage}

\* a request that only reads the store
Read(request, response) ==
    /\ req' = request
    /\ resp' = response
    /\ UNCHANGED <<questions, categories, deleted, seen, quizCat>>

NextPage ==
    \E page \in PageArgs :
        Read([op |-> "questions", page |-> page, fault |-> FALSE],
             retrieve_questions(page, FALSE))

SpecPage == InitPage /\ [][NextPage]_vars

----------------------------------------------------------------------------
(* Requests *)

NoRows == [id \in {} |-> Row(id)]

\* a database holding one full page of questions
Loaded == [id \in 1..QUESTIONS_PER_PAGE |-> Row(id)]

\* the application starts on an empty or on a loaded database; category 1
\* exists, category 2 is a category id no Category row has
Init ==
    /\ questions \in {NoRows, Loaded}
    /\ categories = (1 :> Science)
    /\ req = NoRequest
    /\ resp = NoResponse
    /\ deleted = {}
    /\ seen = <<>>
    /\ quizCat = 0

Texts == {<<"T", "i">>, <<"a">>}

CategoryIds == {1, 2}

Body(q, a, d, c, s) ==
    [kind |-> "object", question |-> q, answer |-> a, difficulty |-> d,
     category |-> c, searchTerm |-> s]

\* valid JSON that is not an object
NotAnObject == [kind |-> "array"]
\* a JSON request whose body does not parse
Malformed == [kind |-> "malformed"]

CompleteBodies(terms) ==
    {Body(Val(q), Val("x"), Val(1), Val(c), s) : q \in Texts, c \in CategoryIds, s \in terms}

\* no difficulty; a null answer; no field at all
IncompleteBodies(terms) ==
    {Body(Val(<<"a">>), Val("x"), Absent, Val(1), s) : s \in terms}
    \cup {Body(Val(<<"a">>), Null, Val(1), Val(1), s) : s \in terms}
    \cup {Body(Absent, Absent, Absent, Absent, s) : s \in terms}

SearchTerms == {Val(<<"t">>), Val(<<"I">>), Val(<<"_">>)}

PostBodies ==
    CompleteBodies({Absent})
    \cup IncompleteBodies({Absent})
    \cup {Body(Absent, Absent, Absent, Absent, s) : s \in SearchTerms \cup {Null, Val(<<>>)}}
    \cup {Body(Val(<<"a">>), Val("x"), Val(1), Val(1), s) : s \in {Val(<<"t">>), Val(<<>>)}}
    \cup {NotAnObject, Malformed}

QuizBody(p, c) == [kind |-> "object", previous_questions |-> p, quiz_category |-> c]

BadQuizBodies ==
    {QuizBody(Absent, Val([id |-> 0])), QuizBody(Val(<<>>), Absent), NotAnObject, Malformed}

QuizBodies ==
    {QuizBody(Val(<<>>), Val([id |-> 0])),
     QuizBody(Val(<<QUESTIONS_PER_PAGE + 1>>), Val([id |-> 1]))}
    \cup BadQuizBodies

Client == <<seen, quizCat>>

Categories(faults) ==
    \E f \in faults :
        Read([op |-> "categories", fault |-> f], retrieve_categories(f))

Questions(faults) ==
    \E page \in {<<>>, <<0>>, <<1>>, <<2>>}, f \in faults :
        Read([op |-> "questions", page |-> page, fault |-> f],
             retrieve_questions(page, f))

Delete(faults) ==
    /\ \E question_id \in {0, 1} \cup NewIds, f \in faults : delete_question(question_id, f)
    /\ UNCHANGED Client

CreateOrSearch(faults) ==
    /\ \E body \in PostBodies, new_id \in NewIds, f \in faults :
          create_question_or_search(body, new_id, f)
    /\ UNCHANGED Client

CategoryQuestions(faults) ==
    \E category_id \in 0..2, f \in faults :
        Read([op |-> "category_questions", id |-> category_id, fault |-> f],
             retrieve_questions_from_category(category_id, f))

Quiz(bodies, faults) ==
    /\ \E body \in bodies, f \in faults : get_questions_for_quiz(body, f)
    /\ UNCHANGED Client

\* the store works
Working == {FALSE}

Next ==
    \/ Categories(Working)
    \/ Questions(Working)
    \/ Delete(Working)
    \/ CreateOrSearch(Working)
    \/ CategoryQuestions(Working)
    \/ Quiz(QuizBodies, Working)

Spec == Init /\ [][Next]_vars

----------------------------------------------------------------------------
(* Requests against a store whose calls may raise *)

NoCategories == [id \in {} |-> Science]

InitFault ==
    /\ questions \in {NoRows, Loaded}
    /\ categories \in {NoCategories, (1 :> Science)}
    /\ req = NoRequest
    /\ resp = NoResponse
    /\ deleted = {}
    /\ seen = <<>>
    /\ quizCat = 0

NextFault ==
    \/ Categories(BOOLEAN)
    \/ Questions(BOOLEAN)
    \/ Delete(BOOLEAN)
    \/ CreateOrSearch(BOOLEAN)
    \/ CategoryQuestions(BOOLEAN)
    \/ Quiz(QuizBodies, BOOLEAN)

SpecFault == InitFault /\ [][NextFault]_vars

----------------------------------------------------------------------------
(* The reading handlers on any small store *)

Art == "Art"

\* every table of questions with ids in 1..MaxQuiz and categories in CategoryIds
ReadStores ==
    UNION {[S -> CategoryIds] : S \in SUBSET (1..MaxQuiz)}

InitRead ==
    /\ \E cat \in ReadStores :
          questions = [id \in DOMAIN cat |-> [Row(id) EXCEPT !.category = cat[id]]]
    /\ categories \in {NoCategories, (1 :> Science), (1 :> Science) @@ (2 :> Art)}
    /\ req = NoRequest
    /\ resp = NoResponse
    /\ deleted = {}
    /\ seen = <<>>
    /\ quizCat = 0

\* previous_questions: ids in any order, ids no question has (0), repeated ids
PreviousLists ==
    {<<>>, SortedIds(1..MaxQuiz)}
    \cup {<<a>> : a \in 0..MaxQuiz}
    \cup {<<a, b>> : a \in 0..MaxQuiz, b \in 0..MaxQuiz}

AllQuizBodies ==
    {QuizBody(Val(p), Val([id |-> c])) : p \in PreviousLists, c \in {0} \cup CategoryIds}
    \cup BadQuizBodies

NextRead ==
    \/ Categories(Working)
    \/ CategoryQuestions(Working)
    \/ Quiz(AllQuizBodies, Working)

SpecRead == InitRead /\ [][NextRead]_vars

----------------------------------------------------------------------------
(* A quiz session: the client sends what it has seen, and keeps what it gets *)

InitQuiz ==
    /\ \E cat \in ReadStores :
          questions = [id \in DOMAIN cat |-> [Row(id) EXCEPT !.category = cat[id]]]
    /\ categories = (1 :> Science) @@ (2 :> Art)
    /\ req = NoRequest
    /\ resp = NoResponse
    /\ deleted = {}
    /\ seen = <<>>
    /\ quizCat \in {0} \cup CategoryIds

QuizRound ==
    /\ get_questions_for_quiz(QuizBody(Val(seen), Val([id |-> quizCat])), FALSE)
    /\ seen' = IF resp'.status = 200 THEN Append(seen, resp'.question.id) ELSE seen
    /\ UNCHANGED quizCat

NextQuiz == QuizRound

\* the client keeps calling
SpecQuiz == InitQuiz /\ [][NextQuiz]_vars /\ WF_vars(QuizRound)

----------------------------------------------------------------------------
(* Vocabulary of the properties *)

Range(f) == {f[k] : k \in DOMAIN f}

\* the ids of the questions a response carries
RespQuestionIds ==
    IF resp.status # 200 THEN {}
    ELSE IF "questions" \in DOMAIN resp THEN {q.id : q \in Range(resp.questions)}
    ELSE IF "question" \in DOMAIN resp THEN {resp.question.id}
    ELSE {}

\* a sequence of formatted questions in strictly ascending id order
Ascending(qs) == \A j, k \in 1..Len(qs) : j < k => qs[j].id < qs[k].id

\* 1-indexed position of a stored id in the list of all questions by ascending id
Position(id) == Cardinality({j \in DOMAIN questions : j <= id})

IsError(r, code) == r.status = code /\ r.success = FALSE /\ r.error = code

\* a POST /questions body with no searchTerm field
IsCreateBody(b) == b.kind = "object" /\ b.searchTerm.st = "absent"

FourFieldsGiven(b) ==
    ~IsNone(b.question) /\ ~IsNone(b.answer) /\ ~IsNone(b.category) /\ ~IsNone(b.difficulty)

\* a listing request for some page would return the stored question id
ListedOnSomePage(id) ==
    \E n \in 1..(Cardinality(DOMAIN questions) \div QUESTIONS_PER_PAGE + 1) :
        LET r == retrieve_questions(<<n>>, FALSE)
        IN  r.status = 200 /\ format(id) \in Range(r.questions)

\* a listing request for the question's category would return it
ListedInItsCategory(id) ==
    LET r == retrieve_questions_from_category(questions[id].category, FALSE)
    IN  r.status = 200 /\ format(id) \in Range(r.questions)

\* every stored question stays, unaltered, unless the step deletes it
StaysUntilDeleted ==
    \A id \in DOMAIN questions :
        \/ id \in DOMAIN questions' /\ questions'[id] = questions[id]
        \/ req'.op = "delete" /\ req'.id = id

\* a step serving a complete create request adds one fresh question with its values
CreateAddsOne ==
    (/\ req'.op = "create_or_search"
     /\ IsCreateBody(req'.body)
     /\ FourFieldsGiven(req'.body))
    => /\ resp' = [status |-> 200, success |-> TRUE]
       /\ \E new \in DOMAIN questions' \ DOMAIN questions :
             /\ DOMAIN questions' = DOMAIN questions \cup {new}
             /\ questions'[new] = [question |-> req'.body.question.v,
                                   answer |-> req'.body.answer.v,
                                   difficulty |-> req'.body.difficulty.v,
                                   category |-> req'.body.category.v]
       /\ \A id \in DOMAIN questions : questions'[id] = questions[id]

----------------------------------------------------------------------------
(* Properties *)

\* C1: deleting a stored id answers success with deleted = id, removes that
\* question and nothing else, and until a question is created again no
\* listing, category listing, search or quiz response carries that id.
C1_DeleteRemoves ==
    /\ [](RespQuestionIds \cap deleted = {})
    /\ [][(req'.op = "delete" /\ req'.id \in DOMAIN questions /\ ~req'.fault)
            => /\ resp' = [status |-> 200, success |-> TRUE, deleted |-> req'.id]
               /\ DOMAIN questions' = DOMAIN questions \ {req'.id}
               /\ \A id \in DOMAIN questions' : questions'[id] = questions[id]
               /\ categories' = categories]_vars

\* a question was deleted, others remain, and a later response lists them
C1_Witness ==
    /\ deleted # {}
    /\ req.op \in {"questions", "category_questions", "create_or_search", "quiz"}
    /\ RespQuestionIds # {}

\* C2: a create request (no searchTerm) with one of the four fields missing
\* or null is answered 422 and leaves the stored questions as they were.
C2_IncompleteRejected ==
    [][(/\ req'.op = "create_or_search"
        /\ IsCreateBody(req'.body)
        /\ ~FourFieldsGiven(req'.body))
         => IsError(resp', 422) /\ questions' = questions]_vars

C2_Witness ==
    /\ req.op = "create_or_search"
    /\ IsCreateBody(req.body)
    /\ ~IsNone(req.body.question) /\ IsNone(req.body.difficulty)
    /\ resp.status = 422
    /\ DOMAIN questions # {}

C4_PageContract ==
    (req.op = "questions" /\ ~req.fault)
    => LET N == IF req.page = <<>> THEN 1 ELSE req.page[1]
           onPage == {id \in DOMAIN questions :
                        /\ QUESTIONS_PER_PAGE * (N - 1) + 1 <= Position(id)
                        /\ Position(id) <= QUESTIONS_PER_PAGE * N}
       IN  IF onPage = {}
           THEN IsError(resp, 404)
           ELSE /\ resp.status = 200
                /\ Ascending(resp.questions)
                /\ Range(resp.questions) = {format(id) : id \in onPage}
                /\ resp.totalQuestions = Cardinality(DOMAIN questions)

\* text contains term, case-insensitively
Contains(text, term) ==
    \E k \in 0..(Len(text) - Len(term)) :
        Lower(SubSeq(text, k + 1, k + Len(term))) = Lower(term)

\* C5: a POST /questions body with a searchTerm field, whatever its value,
\* is answered as a search: success, exactly the questions containing the
\* term case-insensitively, a null currentCategory, never 422.
C5_SearchTermAlwaysSearches ==
    (/\ req.op = "create_or_search"
     /\ req.body.kind = "object"
     /\ req.body.searchTerm.st # "absent"
     /\ ~req.fault)
    => /\ resp.status = 200
       /\ "questions" \in DOMAIN resp
       /\ resp.currentCategory = "null"
       /\ req.body.searchTerm.st = "val"
       /\ Range(resp.questions) =
             {format(id) : id \in {i \in DOMAIN questions :
                                      Contains(questions[i].question, req.body.searchTerm.v)}}

\* C6: POST /quizzes answers 404 exactly when no stored question is outside
\* previous_questions and of the category (any category when the id is 0);
\* otherwise it answers with one such stored question.
C6_QuizCandidate ==
    (/\ req.op = "quiz"
     /\ req.body.kind = "object"
     /\ ~IsNone(req.body.previous_questions)
     /\ ~IsNone(req.body.quiz_category)
     /\ ~req.fault)
    => LET previous == Range(req.body.previous_questions.v)
           c == req.body.quiz_category.v.id
           candidates == {id \in DOMAIN questions :
                            /\ id \notin previous
                            /\ c = 0 \/ questions[id].category = c}
       IN  IF candidates = {}
           THEN IsError(resp, 404)
           ELSE /\ resp.status = 200
                /\ resp.question.id \in candidates
                /\ resp.question = format(resp.question.id)

\* a question of one category is served while one of the other category and
\* one already seen are stored
C6_Witness ==
    /\ req.op = "quiz"
    /\ resp.status = 200
    /\ req.body.quiz_category.v.id # 0
    /\ \E id \in DOMAIN questions : questions[id].category # req.body.quiz_category.v.id
    /\ \E id \in DOMAIN questions : id \in Range(req.body.previous_questions.v)

\* C7: deleting an id no stored question has answers 404 with success = false
\* and error = 404 and changes neither questions nor categories.
C7_DeleteAbsent ==
    [][(req'.op = "delete" /\ req'.id \notin DOMAIN questions /\ ~req'.fault)
         => /\ IsError(resp', 404)
            /\ questions' = questions
            /\ categories' = categories]_vars

\* the id asked for was deleted by an earlier request
C7_Witness ==
    /\ req.op = "delete"
    /\ resp.status = 404
    /\ req.id \in deleted

\* C8: every response is a success, or an error of status 404 or 422 whose
\* body has success = false and error = the status.
C8_OnlyTwoErrorKinds ==
    resp # NoResponse => (resp.status = 200 \/ IsError(resp, 404) \/ IsError(resp, 422))

\* C9: the category listing answers 404 exactly when the category is unknown
\* or has no question; otherwise the questions of the category by ascending
\* id, the category's label, and the count of all stored questions.
C9_CategoryListing ==
    (req.op = "category_questions" /\ ~req.fault)
    => LET c == req.id
           members == {id \in DOMAIN questions : questions[id].category = c}
       IN  IF c \notin DOMAIN categories \/ members = {}
           THEN IsError(resp, 404)
           ELSE /\ resp.status = 200
                /\ Ascending(resp.questions)
                /\ Range(resp.questions) = {format(id) : id \in members}
                /\ resp.currentCategory = categories[c]
                /\ resp.totalQuestions = Cardinality(DOMAIN questions)

\* several questions of the category are listed, fewer than are stored
C9_Witness ==
    /\ req.op = "category_questions"
    /\ resp.status = 200
    /\ Len(resp.questions) >= 2
    /\ Len(resp.questions) < resp.totalQuestions

\* the stored questions the session's category admits
Playable == {id \in DOMAIN questions : quizCat = 0 \/ questions[id].category = quizCat}

\* C10: a quiz session serves no question twice, serves every playable
\* question, answers 404 to the call after the last one, and ends.
C10_SessionExhausts ==
    /\ [](/\ Range(seen) \subseteq Playable
          /\ Cardinality(Range(seen)) = Len(seen)
          /\ resp.status = 404 => Range(seen) = Playable /\ Len(seen) = Cardinality(Playable))
    /\ [][/\ Range(seen) = Playable => IsError(resp', 404)
          /\ Range(seen) # Playable => resp'.status = 200 /\ Len(seen') = Len(seen) + 1]_vars
    /\ <>(resp.status = 404)

\* a session over two categories ended after serving two questions
C10_Witness ==
    /\ resp.status = 404
    /\ Len(seen) >= 2
    /\ quizCat # 0
    /\ Playable # DOMAIN questions

====
